---- MODULE Spec2Model ----
(***************************************************************************)
(* A model of Convert-md/convert-md.py: the Markdown -> HTML -> PDF batch  *)
(* converter (class ConvertMD).                                            *)
(*                                                                         *)
(* Text is modelled as a sequence of tokens, each token an indivisible     *)
(* piece of the real string ("href=", a quote, "file://", a path           *)
(* component, ...).  The string operations of the source (str.replace,     *)
(* str.strip, str.startswith, re.sub, urlsplit, unquote, Path joins) are   *)
(* computed on these sequences the way the source computes them on         *)
(* characters.  Paths are sequences of components, the first one the       *)
(* drive: the script targets Windows (drive-letter paths, file:///C:/...). *)
(***************************************************************************)
EXTENDS Integers, Sequences, FiniteSets, TLC

(***************************************************************************)
(* Tokens                                                                  *)
(***************************************************************************)
DQ == "\""
SQ == "'"
SP == " "
AboutBlank == "about:blank"
Quotes == {DQ, SQ}

\* the prefixes should_keep tests with startswith, other than "#"
KeepSchemes == {"http://", "https://", "data:", "mailto:", "file://"}
\* what urlsplit takes for a scheme: letters followed by a colon ("C:" too)
SchemeTokens == KeepSchemes \cup {"C:"}
\* tokens made of scheme characters only (letters, digits, "+", "-", "."),
\* the first one a letter: they may stand before the colon of a scheme
SchemeCharTokens == {"a.png", "pic.webp", "img"}
\* scheme tokens that carry the "//" which opens a network location
AuthorityTokens == {"http://", "https://", "file://"}

\* urllib.parse.unquote and its inverse on one path component
Unquote(t) ==
    CASE t = "C%3A" -> "C:"
      [] t = "a%20b.png" -> "a b.png"
      [] OTHER -> t

Quote(t) ==
    CASE t = "C:" -> "C%3A"
      [] t = "file:" -> "file%3A"
      [] t = "a b.png" -> "a%20b.png"
      [] t = " " -> "%20"
      [] t = "," -> "%2C"
      [] t = "src=" -> "src%3D"
      [] OTHER -> t

(***************************************************************************)
(* Sequence helpers standing for Python's str methods                      *)
(***************************************************************************)
RECURSIVE lstrip(_, _)
lstrip(s, t) == IF s # <<>> /\ Head(s) = t THEN lstrip(Tail(s), t) ELSE s

RECURSIVE rstrip(_, _)
rstrip(s, t) ==
    IF s # <<>> /\ s[Len(s)] = t THEN rstrip(SubSeq(s, 1, Len(s) - 1), t) ELSE s

\* str.strip(): whitespace off both ends
strip(s) == rstrip(lstrip(s, SP), SP)

IsPrefix(p, s) == Len(p) <= Len(s) /\ SubSeq(s, 1, Len(p)) = p

\* str.replace(old, new): left to right, non-overlapping
RECURSIVE str_replace(_, _, _)
str_replace(s, old, new) ==
    IF s = <<>> THEN <<>>
    ELSE IF IsPrefix(old, s)
         THEN new \o str_replace(SubSeq(s, Len(old) + 1, Len(s)), old, new)
         ELSE <<Head(s)>> \o str_replace(Tail(s), old, new)

\* the least index >= i of s holding a token of set T, or 0
RECURSIVE FindFrom(_, _, _)
FindFrom(s, i, T) ==
    IF i > Len(s) THEN 0
    ELSE IF s[i] \in T THEN i ELSE FindFrom(s, i + 1, T)

\* str.split(sep): the pieces between separator tokens (empty pieces kept)
RECURSIVE split(_, _)
split(s, sep) ==
    LET k == FindFrom(s, 1, {sep})
    IN  IF k = 0 THEN <<s>>
        ELSE <<SubSeq(s, 1, k - 1)>> \o split(SubSeq(s, k + 1, Len(s)), sep)

\* str.split(): runs of whitespace separate, no empty pieces
RECURSIVE split_ws(_)
split_ws(s) ==
    LET t == lstrip(s, SP)
        k == FindFrom(t, 1, {SP})
    IN  IF t = <<>> THEN <<>>
        ELSE IF k = 0 THEN <<t>>
        ELSE <<SubSeq(t, 1, k - 1)>> \o split_ws(SubSeq(t, k + 1, Len(t)))

\* sep.join(parts)
RECURSIVE join(_, _)
join(parts, sep) ==
    IF parts = <<>> THEN <<>>
    ELSE IF Len(parts) = 1 THEN parts[1]
    ELSE parts[1] \o sep \o join(Tail(parts), sep)

(***************************************************************************)
(* Paths (pathlib on Windows)                                              *)
(***************************************************************************)
\* the components of a slash-separated path text
\* (tokens that follow one another without a slash are one component)
RECURSIVE Components(_)
Components(u) ==
    IF u = <<>> THEN <<>>
    ELSE IF Head(u) = "/" THEN Components(Tail(u))
    ELSE LET rest == Components(Tail(u))
         IN  IF Len(u) >= 2 /\ u[2] # "/" /\ Head(u) # "C:"
             THEN <<Head(u) \o Head(rest)>> \o Tail(rest)
             ELSE <<Head(u)>> \o rest

\* re.match(r"^[a-zA-Z]:/", u)
IsDriveAbsolute(u) == Len(u) >= 2 /\ u[1] = "C:" /\ u[2] = "/"

\* Path(u): an absolute path when u carries the drive
PathOf(u) == Components(u)

\* (base_dir / u).resolve(): a drive-absolute u replaces base_dir, a rooted u
\* keeps only base_dir's drive, anything else is appended
JoinPath(base_dir, u) ==
    IF IsDriveAbsolute(u) THEN Components(u)
    ELSE IF u # <<>> /\ Head(u) = "/" THEN <<base_dir[1]>> \o Components(u)
    ELSE IF u # <<>> /\ Head(u) = base_dir[1] THEN base_dir \o Components(Tail(u))
    ELSE base_dir \o Components(u)

\* the text of a path: its components with a slash between them
RECURSIVE TextOf(_)
TextOf(p) ==
    IF p = <<>> THEN <<>>
    ELSE IF Len(p) = 1 THEN p
    ELSE <<Head(p), "/">> \o TextOf(Tail(p))

\* a path text as pathlib keeps it: "file://" read as the characters
\* "file:" "/" "/", runs of slashes as one, no slash at the end
RECURSIVE PathText(_)
PathText(u) ==
    IF u = <<>> THEN <<>>
    ELSE IF Head(u) = "file://" THEN PathText(<<"file:", "/">> \o Tail(u))
    ELSE IF Head(u) = "/" /\ (Len(u) = 1 \/ u[2] = "/") THEN PathText(Tail(u))
    ELSE <<Head(u)>> \o PathText(Tail(u))

\* the text of (base_dir / u).resolve(), as JoinPath below gives its components
JoinText(base_dir, u) ==
    IF Len(u) >= 2 /\ u[1] = "C:" /\ u[2] = "/" THEN PathText(u)
    ELSE IF u # <<>> /\ Head(u) = "/" THEN PathText(<<base_dir[1]>> \o u)
    ELSE IF u # <<>> /\ Head(u) = base_dir[1]
         THEN PathText(TextOf(base_dir) \o <<"/">> \o Tail(u))
    ELSE PathText(TextOf(base_dir) \o <<"/">> \o u)

\* Path.as_uri() of a path text: file:///<drive>/<quoted rest>
uri_of_text(t) ==
    IF t = <<>> THEN <<"file://">>
    ELSE IF Len(t) = 1 THEN <<"file://", "/", Head(t), "/">>
    ELSE <<"file://", "/", Head(t)>>
             \o [i \in 1..(Len(t) - 1) |-> Quote(t[i + 1])]

\* Path.as_uri() of a path given by its components
as_uri(p) == uri_of_text(TextOf(p))

\* Path.is_file()
is_file(p, files) == p \in files

(***************************************************************************)
(* Path/URL Normalizer and HTML Rewriter: rewrite_local_urls_to_file_uri   *)
(***************************************************************************)
should_keep(url) ==
    LET u == strip(url)
    IN  \/ u = <<>>
        \/ Head(u) = "#"
        \/ Head(u) \in KeepSchemes

\* urlsplit, the scheme: everything up to the first colon, when only scheme
\* characters stand before it.  colon is the place of that colon in u (or 0).
\* Returns [rest, netloc]: what follows the scheme, and whether the scheme
\* token carries the "//" that opens a network location.
cut_scheme(u, colon) ==
    IF colon > 0 /\ \A i \in 1..(colon - 1) : u[i] \in SchemeCharTokens
    THEN [rest |-> SubSeq(u, colon + 1, Len(u)), netloc |-> u[colon] \in AuthorityTokens]
    ELSE [rest |-> u, netloc |-> FALSE]

\* urlsplit, the network location: it ends at the next "/", "?" or "#"
from_delimiter(t) ==
    LET k == FindFrom(t, 1, {"/", "?", "#"})
    IN  IF k = 0 THEN <<>> ELSE SubSeq(t, k, Len(t))

cut_netloc(s) ==
    LET slashes == Len(s.rest) >= 2 /\ s.rest[1] = "/" /\ s.rest[2] = "/"
    IN  IF slashes THEN from_delimiter(SubSeq(s.rest, 3, Len(s.rest)))
        ELSE IF s.netloc THEN from_delimiter(s.rest)
        ELSE s.rest

\* urlsplit, the query and the fragment
cut_query(t) ==
    LET cut == FindFrom(t, 1, {"?", "#"})
    IN  IF cut = 0 THEN t ELSE SubSeq(t, 1, cut - 1)

\* urllib.parse.urlsplit(u).path: the scheme, the network location, the
\* query and the fragment are cut off
urlsplit_path(u) == cut_query(cut_netloc(cut_scheme(u, FindFrom(u, 1, SchemeTokens))))

\* urllib.parse.unquote(u).replace("\\", "/")
unquote_path(p) ==
    [i \in 1..Len(p) |-> IF Unquote(p[i]) = "\\" THEN "/" ELSE Unquote(p[i])]

normalize_local_path(url) == unquote_path(urlsplit_path(strip(url)))

\* lines 137-152 of to_uri_if_exists, u being normalize_local_path(url)
resolve_local(url, u, base_dir, files) ==
    IF IsDriveAbsolute(u) THEN uri_of_text(PathText(u))
    ELSE IF is_file(JoinPath(base_dir, u), files)
         THEN uri_of_text(JoinText(base_dir, u))
    ELSE IF u # <<>> /\ Head(u) = "/"
            /\ is_file(JoinPath(base_dir, lstrip(u, "/")), files)
         THEN uri_of_text(JoinText(base_dir, lstrip(u, "/")))
    ELSE url

\* the slip of resolving without looking at the disk
to_uri_unchecked(url, base_dir, files) ==
    IF should_keep(url) THEN url
    ELSE uri_of_text(JoinText(base_dir, normalize_local_path(url)))

to_uri_if_exists(url, base_dir, files) ==
    IF should_keep(url) THEN url
    ELSE resolve_local(url, normalize_local_path(url), base_dir, files)

\* the slip line 158 warns of: the closing quote (group 4) added once more
replace_attr_twice_quoted(prefix, quote, url, base_dir, files) ==
    <<prefix, quote>> \o to_uri_if_exists(url, base_dir, files) \o <<quote, quote>>

replace_attr(prefix, quote, url, base_dir, files) ==
    <<prefix, quote>> \o to_uri_if_exists(url, base_dir, files) \o <<quote>>

\* one item of a srcset value: "url descriptor"
with_rest(new_url, rest) ==
    strip(new_url \o (IF rest # <<>> THEN <<SP>> \o rest ELSE <<>>))

srcset_tokens(tokens, base_dir, files) ==
    with_rest(to_uri_if_exists(tokens[1], base_dir, files), join(Tail(tokens), <<SP>>))

srcset_part(item, base_dir, files) == srcset_tokens(split_ws(item), base_dir, files)

RECURSIVE srcset_parts(_, _, _)
srcset_parts(items, base_dir, files) ==
    IF items = <<>> THEN <<>>
    ELSE LET item == strip(Head(items))
             more == srcset_parts(Tail(items), base_dir, files)
         IN  IF item = <<>> THEN more
             ELSE <<srcset_part(item, base_dir, files)>> \o more

replace_srcset(prefix, quote, value, base_dir, files) ==
    <<prefix, quote>>
        \o join(srcset_parts(split(value, ","), base_dir, files), <<",", SP>>)
        \o <<quote>>

\* tokens whose last character is a word character: no word boundary (\b)
\* lies between one of them and an attribute name
WordEndTokens == {"a.png", "a%20b.png", "a b.png", "C%3A", "pic.webp", "img",
                  AboutBlank}

\* where the value opened at html[2] closes: the first later occurrence of the
\* same quote (0 when html does not start with an attribute of `names` that
\* follows the token prev at a word boundary)
AttrClose(prev, html, names) ==
    IF prev \notin WordEndTokens
       /\ Len(html) >= 2 /\ html[1] \in names /\ html[2] \in Quotes
    THEN FindFrom(html, 3, {html[2]})
    ELSE 0

\* pattern.sub(replace_attr, html) for (\b(?:src|href)=)("|')(.*?)(\2)
\* (the scan goes on after the token prev)
RECURSIVE sub_src_href_from(_, _, _, _)
sub_src_href_from(prev, html, base_dir, files) ==
    IF html = <<>> THEN <<>>
    ELSE LET close == AttrClose(prev, html, {"src=", "href="})
         IN  IF close > 0
             THEN replace_attr(html[1], html[2], SubSeq(html, 3, close - 1),
                               base_dir, files)
                  \o sub_src_href_from(html[close], SubSeq(html, close + 1, Len(html)),
                                       base_dir, files)
             ELSE <<Head(html)>>
                  \o sub_src_href_from(Head(html), Tail(html), base_dir, files)

sub_src_href(html, base_dir, files) == sub_src_href_from("", html, base_dir, files)

\* srcset_pattern.sub(replace_srcset, html)
RECURSIVE sub_srcset_from(_, _, _, _)
sub_srcset_from(prev, html, base_dir, files) ==
    IF html = <<>> THEN <<>>
    ELSE LET close == AttrClose(prev, html, {"srcset="})
         IN  IF close > 0
             THEN replace_srcset(html[1], html[2], SubSeq(html, 3, close - 1),
                                 base_dir, files)
                  \o sub_srcset_from(html[close], SubSeq(html, close + 1, Len(html)),
                                     base_dir, files)
             ELSE <<Head(html)>>
                  \o sub_srcset_from(Head(html), Tail(html), base_dir, files)

sub_srcset(html, base_dir, files) == sub_srcset_from("", html, base_dir, files)

rewrite_local_urls_to_file_uri(html, base_dir, files) ==
    sub_srcset(sub_src_href(html, base_dir, files), base_dir, files)

(***************************************************************************)
(* The directory being converted                                           *)
(***************************************************************************)
\* the Markdown files the directory may hold, in the order of the walk
Stems == <<"a", "b">>
BaseDir == <<"C:", "d">>
PicWebp == BaseDir \o <<"pic.webp">>
SubPicWebp == BaseDir \o <<"img", "pic.webp">>
WebpNames == {"pic.webp"}
Suffixes == {".md", ".webp"}

\* PurePath.stem for the file names of the model
path_stem(name) ==
    CHOOSE st \in {Stems[i] : i \in 1..Len(Stems)} \cup {"pic"} :
        \E e \in Suffixes : st \o e = name

with_name(path, name) == SubSeq(path, 1, Len(path) - 1) \o <<name>>
parent(path) == SubSeq(path, 1, Len(path) - 1)
md_path_of(st) == BaseDir \o <<st \o ".md">>

\* len(str(p)): the components and the separators between them
RECURSIVE StrLen(_)
StrLen(p) ==
    IF p = <<>> THEN 0
    ELSE IF Len(p) = 1 THEN Len(p[1])
    ELSE Len(p[1]) + 1 + StrLen(Tail(p))

\* whether directory d holds no file and no directory
IsEmptyDir(d, files, dirs) ==
    \A p \in files \cup dirs : ~(Len(p) > Len(d) /\ IsPrefix(d, p))

(***************************************************************************)
(* Image Transcoder: convert_webp_images_in_html                           *)
(***************************************************************************)
ScratchName == ".__wkhtml_img_tmp__"
UriStops == {DQ, SQ, SP, ">"}

\* the end of the match of file:///[^"'\s>]+?\.webp that starts at html[1],
\* or 0
WebpMatchEnd(html) ==
    IF Len(html) >= 3 /\ html[1] = "file://" /\ html[2] = "/"
    THEN LET j == FindFrom(html, 3, WebpNames)
             stop == FindFrom(html, 3, UriStops)
         IN  IF j > 0 /\ (stop = 0 \/ j < stop) THEN j ELSE 0
    ELSE 0

\* pattern.findall(html)
RECURSIVE findall_webp(_)
findall_webp(html) ==
    IF html = <<>> THEN <<>>
    ELSE LET j == WebpMatchEnd(html)
         IN  IF j > 0
             THEN <<SubSeq(html, 1, j)>> \o findall_webp(SubSeq(html, j + 1, Len(html)))
             ELSE findall_webp(Tail(html))

\* list(dict.fromkeys(xs)): first occurrences, in order
RECURSIVE dedupe(_)
dedupe(xs) ==
    IF xs = <<>> THEN <<>>
    ELSE LET init == dedupe(SubSeq(xs, 1, Len(xs) - 1))
             last == xs[Len(xs)]
         IN  IF \E i \in 1..Len(init) : init[i] = last THEN init
             ELSE Append(init, last)

\* Path(unquote(urlsplit(uri).path.lstrip("/")))
unquoted(p) == PathOf([i \in 1..Len(p) |-> Unquote(p[i])])

webp_path_of(uri) == unquoted(lstrip(urlsplit_path(uri), "/"))

\* lines 213-218 for one image: img is what Image.open/save does when it is
\* called: "ok", "fail" (raises, nothing written) or "partial" (raises with
\* the output file left behind).  st.made records what each file written
\* here holds (the image it was converted from, <<>> for a broken file) and
\* st.shown which image's locator was replaced by the locator of which file.
save_as_png(st, uri, webp_path, png_path, img) ==
    LET replaced == [st EXCEPT
                        !.temp_artifacts = Append(@, png_path),
                        !.html = str_replace(@, uri, as_uri(png_path)),
                        !.shown = @ \cup {<<webp_path, png_path>>}]
    IN  IF is_file(png_path, st.files) THEN replaced
        ELSE IF img = "ok"
             THEN [replaced EXCEPT !.files = @ \cup {png_path},
                                   !.made = @ \cup {<<png_path, webp_path>>}]
        ELSE IF img = "partial"
             THEN [st EXCEPT !.files = @ \cup {png_path},
                             !.made = @ \cup {<<png_path, <<>>>>}]
        ELSE st

\* lines 208-212 for one image whose path is webp_path
convert_webp_file(st, uri, webp_path, out_dir, img) ==
    IF ~is_file(webp_path, st.files) THEN st
    ELSE save_as_png(st, uri, webp_path,
                     out_dir \o <<path_stem(webp_path[Len(webp_path)]) \o ".png">>, img)

\* One pass of the loop over the matches.  st is the loop state
\* [html, files, temp_artifacts, made, shown].
convert_one_webp(st, uri, out_dir, img) ==
    convert_webp_file(st, uri, webp_path_of(uri), out_dir, img)

RECURSIVE convert_matches(_, _, _, _)
convert_matches(st, matches, out_dir, img) ==
    IF matches = <<>> THEN st
    ELSE convert_matches(convert_one_webp(st, Head(matches), out_dir, img),
                         Tail(matches), out_dir, img)

\* lines 223-225: the directory is there and is tracked as well
mark_out_dir(st, dirs, out_dir) ==
    [html |-> st.html, files |-> st.files, dirs |-> dirs \cup {out_dir},
     temp_artifacts |-> Append(st.temp_artifacts, out_dir),
     made |-> st.made, shown |-> st.shown]

\* Returns [html, files, dirs, temp_artifacts, made, shown].  pil: the image
\* library was imported; mkdir_ok: out_dir.mkdir succeeds.
convert_webp_images_in_html(html, html_dir, temp_artifacts, files, dirs, pil, mkdir_ok, img) ==
    LET same == [html |-> html, files |-> files, dirs |-> dirs,
                 temp_artifacts |-> temp_artifacts, made |-> {}, shown |-> {}]
        matches == dedupe(findall_webp(html))
        out_dir == html_dir \o <<ScratchName>>
    IN  IF ~pil THEN same
        ELSE IF matches = <<>> THEN same
        ELSE IF out_dir \notin dirs /\ ~mkdir_ok THEN same
        ELSE mark_out_dir(convert_matches([html |-> html, files |-> files,
                                           temp_artifacts |-> temp_artifacts,
                                           made |-> {}, shown |-> {}],
                                          matches, out_dir, img),
                          dirs, out_dir)

(***************************************************************************)
(* Sanitizer: sanitize_html_for_wkhtmltopdf                                *)
(***************************************************************************)
EmptyHrefDQ == <<"href=", DQ, DQ>>
EmptyHrefSQ == <<"href=", SQ, SQ>>
EmptySrcDQ == <<"src=", DQ, DQ>>
EmptySrcSQ == <<"src=", SQ, SQ>>

\* the slip of leaving out the replacement of line 242
neutralize_empty_attributes(html) ==
    LET h1 == str_replace(html, EmptyHrefDQ, <<"href=", DQ, "#", DQ>>)
        h2 == str_replace(h1, EmptyHrefSQ, <<"href=", SQ, "#", SQ>>)
        h3 == str_replace(h2, EmptySrcDQ, <<"src=", DQ, "#", DQ>>)
    IN  str_replace(h3, EmptySrcSQ, <<"src=", SQ, "#", SQ>>)

\* the literal substitutions of lines 235-242
neutralize(html) ==
    LET h1 == str_replace(html, EmptyHrefDQ, <<"href=", DQ, "#", DQ>>)
        h2 == str_replace(h1, EmptyHrefSQ, <<"href=", SQ, "#", SQ>>)
        h3 == str_replace(h2, EmptySrcDQ, <<"src=", DQ, "#", DQ>>)
        h4 == str_replace(h3, EmptySrcSQ, <<"src=", SQ, "#", SQ>>)
    IN  str_replace(h4, <<AboutBlank>>, <<"#">>)

\* lines 280-283: r is what the transcoder returned; the file keeps its
\* content when write_text raises
write_back(content, io, r) ==
    [text |-> IF io = "write_fail" THEN content ELSE r.html,
     files |-> r.files, dirs |-> r.dirs, temp_artifacts |-> r.temp_artifacts,
     made |-> r.made, shown |-> r.shown]

\* Returns [text, files, dirs, temp_artifacts, made, shown]: text is the
\* content of the file at html_path afterwards.  io: "ok", "read_fail" (read_text raises OSError)
\* or "write_fail" (write_text raises OSError).  The diagnostic scan of
\* lines 253-278 only prints.
sanitize_html_for_wkhtmltopdf(html_path, content, temp_artifacts, files, dirs, pil, io, mkdir_ok, img) ==
    IF io = "read_fail"
    THEN [text |-> content, files |-> files, dirs |-> dirs,
          temp_artifacts |-> temp_artifacts, made |-> {}, shown |-> {}]
    ELSE write_back(content, io,
             convert_webp_images_in_html(
                 rewrite_local_urls_to_file_uri(neutralize(content),
                                                parent(html_path), files),
                 parent(html_path), temp_artifacts, files, dirs, pil, mkdir_ok, img))

(***************************************************************************)
(* Conversion Orchestrator: the pure parts of convert_one_file             *)
(***************************************************************************)
\* Returns [raised, path, files].  enc is what the source file holds:
\* "unreadable" (read_bytes raises OSError), "utf8", "legacy" (decodes as
\* gb18030 only) or "undecodable" (decodes in none of the encodings tried:
\* the last decode raises UnicodeDecodeError).  write_ok: write_text succeeds.
ensure_utf8_markdown(input_path, md_tmp_path, enc, write_ok, files) ==
    IF enc \in {"unreadable", "utf8"}
    THEN [raised |-> FALSE, path |-> input_path, files |-> files]
    ELSE IF enc = "legacy" /\ write_ok
    THEN [raised |-> FALSE, path |-> md_tmp_path, files |-> files \cup {md_tmp_path}]
    ELSE [raised |-> TRUE, path |-> input_path, files |-> files]

build_pandoc_cmd(input_md, html_path, title, uris) ==
    [input |-> input_md, output |-> html_path, title |-> title,
     css |-> SelectSeq(uris, LAMBDA uri : uri # <<>>)]

\* the stylesheet links the converter writes for its --css options
RECURSIVE CssLinks(_)
CssLinks(uris) ==
    IF uris = <<>> THEN <<>>
    ELSE <<"href=", DQ>> \o Head(uris) \o <<DQ>> \o CssLinks(Tail(uris))

\* the HTML the converter writes for a document whose body is `content`
PandocHtml(cmd, content) == CssLinks(cmd.css) \o content

\* the slip of sorting without reverse=True: the directory comes first
RECURSIVE sorted_shortest_first(_)
sorted_shortest_first(S) ==
    IF S = {} THEN <<>>
    ELSE LET p == CHOOSE x \in S : \A y \in S : StrLen(x) <= StrLen(y)
         IN  <<p>> \o sorted_shortest_first(S \ {p})

\* sorted(set(temp_artifacts), key=lambda x: len(str(x)), reverse=True)
RECURSIVE sorted_longest_first(_)
sorted_longest_first(S) ==
    IF S = {} THEN <<>>
    ELSE LET p == CHOOSE x \in S : \A y \in S : StrLen(x) >= StrLen(y)
         IN  <<p>> \o sorted_longest_first(S \ {p})

\* The loop of lines 461-469 over the sorted artifacts.  st is
\* [files, dirs, log]; failing holds the paths whose deletion the system
\* refuses.  Every OSError is swallowed per item.
RECURSIVE remove_artifacts(_, _, _)
remove_artifacts(st, ps, failing) ==
    IF ps = <<>> THEN st
    ELSE LET p == Head(ps)
             fileOk == p \notin failing
             dirOk == p \notin failing /\ IsEmptyDir(p, st.files, st.dirs)
             next ==
                 IF p \in st.files
                 THEN [files |-> IF fileOk THEN st.files \ {p} ELSE st.files,
                       dirs |-> st.dirs,
                       log |-> Append(st.log, [path |-> p, call |-> "unlink", ok |-> fileOk])]
                 ELSE IF p \in st.dirs
                 THEN [files |-> st.files,
                       dirs |-> IF dirOk THEN st.dirs \ {p} ELSE st.dirs,
                       log |-> Append(st.log, [path |-> p, call |-> "rmdir", ok |-> dirOk])]
                 ELSE st
         IN  remove_artifacts(next, Tail(ps), failing)

\* The `if success:` branch of the finally block, lines 450-469.  Returns
\* [files, dirs, log]; log is the sequence of deletion calls made.  An OSError
\* of html_path.unlink() or md_tmp_path.unlink() leaves the block through the
\* handler of line 475.
success_cleanup(keep_html, html_path, md_tmp_path, artifacts, files, dirs, failing) ==
    LET none == [files |-> files, dirs |-> dirs, log |-> <<>>]
        delHtml == html_path \in files /\ ~keep_html
        htmlOk == html_path \notin failing
        s1 == IF ~delHtml THEN none
              ELSE [files |-> IF htmlOk THEN files \ {html_path} ELSE files,
                    dirs |-> dirs,
                    log |-> <<[path |-> html_path, call |-> "unlink", ok |-> htmlOk]>>]
        delTmp == md_tmp_path \in s1.files
        tmpOk == md_tmp_path \notin failing
        s2 == IF ~delTmp THEN s1
              ELSE [files |-> IF tmpOk THEN s1.files \ {md_tmp_path} ELSE s1.files,
                    dirs |-> dirs,
                    log |-> Append(s1.log,
                                   [path |-> md_tmp_path, call |-> "unlink", ok |-> tmpOk])]
        set == {artifacts[i] : i \in 1..Len(artifacts)}
    IN  IF delHtml /\ ~htmlOk THEN s1
        ELSE IF delTmp /\ ~tmpOk THEN s2
        ELSE IF keep_html THEN s2
        ELSE remove_artifacts(s2, sorted_longest_first(set), failing)

\* the slip of cleaning up whatever the outcome of the job
cleanup_on_any_outcome(ok, keep_html, html_path, md_tmp_path, artifacts, files, dirs, failing) ==
    success_cleanup(keep_html, html_path, md_tmp_path, artifacts, files, dirs, failing)

\* The finally block of lines 447-476: on failure (lines 470-474) the
\* locations of the retained files are printed and nothing is deleted.
cleanup(ok, keep_html, html_path, md_tmp_path, artifacts, files, dirs, failing) ==
    IF ~ok THEN [files |-> files, dirs |-> dirs, log |-> <<>>]
    ELSE success_cleanup(keep_html, html_path, md_tmp_path, artifacts, files, dirs,
                         failing)

(***************************************************************************)
(* State                                                                   *)
(***************************************************************************)
VARIABLES
    keep_html_on_success, \* ConvertMD.keep_html_on_success
    have_pil,             \* Image is not None (line 9-11)
    files,                \* the regular files on disk
    dirs,                 \* the scratch directories on disk
    text,                 \* the content of each HTML file on disk
    pc,                   \* where convert() stands
    css_uris,             \* convert(): the stylesheet locators
    enumerated,           \* the Markdown files the walk yields
    todo,                 \* those not yet handed to convert_one_file
    count,                \* convert(): count
    md_path,              \* convert_one_file: md_path
    pandoc_input,         \* convert_one_file: pandoc_input
    body,                 \* what the converter makes of this Markdown file
    temp_artifacts,       \* convert_one_file: temp_artifacts
    holds,                \* what each converted image on disk was converted from
    shown,                \* history: the locators the transcoder replaced in this job
    success,              \* convert_one_file: success
    at_start,             \* history: what was on disk when the job began
    calls,                \* history: the external calls of the current job
    last,                 \* history: the cleanup of the job that returned last
    jobs,                 \* history: one record per job that returned
    faults,               \* how many operations the system has refused so far
    fnPc, fnIn, fnFiles, fnRes, fnOut1, fnOut2  \* the rewriter applied on its own

batchVars == <<keep_html_on_success, have_pil, files, dirs, text, pc, css_uris,
               enumerated, todo, count, md_path, pandoc_input, body,
               temp_artifacts, holds, shown, success, at_start, calls, last,
               jobs, faults>>
fnVars == <<fnPc, fnIn, fnFiles, fnRes, fnOut1, fnOut2>>
vars == <<batchVars, fnVars>>

html_path_of(md) == with_name(md, path_stem(md[Len(md)]) \o ".html")
md_tmp_path_of(md) == with_name(md, path_stem(md[Len(md)]) \o ".__pandoc_tmp__.md")
output_pdf_of(md) == with_name(md, path_stem(md[Len(md)]) \o ".pdf")

HtmlPaths == {html_path_of(md_path_of(Stems[i])) : i \in 1..Len(Stems)}

\* the stylesheet locators get_css_uri / get_compat_css_uri may return
ThemeCssUri == as_uri(<<"C:", "s", "assets", "whitey_plus.css">>)
CompatCssUri == as_uri(<<"C:", "s", "assets", "typora_compat_pandoc.css">>)
CssChoices == {<<>>, <<ThemeCssUri, CompatCssUri>>}

\* the bodies the converter may produce for the Markdown files of the batch
DocEmptyLink == EmptyHrefDQ \o <<"src=", SQ, AboutBlank, SQ>>
DocPic == <<"src=", DQ, "pic.webp", DQ>>
DocSubPic == <<"src=", DQ, "img", "/", "pic.webp", DQ>>
DocBothPics == DocPic \o <<SP>> \o DocSubPic
Docs == {DocEmptyLink, DocPic, DocSubPic, DocBothPics}

\* Filesystem operations the system refuses (OSError) are drawn from the
\* environment, at most MaxFaults of them in one run of the batch.
MaxFaults == 1
One(b) == IF b THEN 1 ELSE 0
\* n more refusals are counted, if the run may still hold that many
Refused(n) == faults + n <= MaxFaults /\ faults' = faults + n

Encodings == {"unreadable", "utf8", "legacy", "undecodable"}
SanitizeIo == {"ok", "read_fail", "write_fail"}
\* what decoding and re-encoding one image does; a file left behind by a
\* failed write ("partial") is a refusal of the system
ImgOutcomes == {"ok", "fail", "partial"}
NoCleanup == [log |-> <<>>, start |-> {}, before |-> {}, after |-> {},
              success |-> FALSE, tracked |-> {}, md |-> <<>>, refused |-> {}]

NoPath == <<>>
Call(op, ok, css, io, html) ==
    [op |-> op, ok |-> ok, css |-> css, io |-> io, html |-> html]

InitFnIdle ==
    /\ fnPc = "off"
    /\ fnIn = <<>>
    /\ fnFiles = {}
    /\ fnRes = <<>>
    /\ fnOut1 = <<>>
    /\ fnOut2 = <<>>

Init ==
    /\ keep_html_on_success \in BOOLEAN
    /\ have_pil \in BOOLEAN
    /\ \E n \in 0..Len(Stems) :
          files = {md_path_of(Stems[i]) : i \in 1..n} \cup {PicWebp, SubPicWebp}
    /\ dirs = {}
    /\ text = [h \in HtmlPaths |-> <<>>]
    /\ pc = "start"
    /\ css_uris = <<>>
    /\ enumerated = <<>>
    /\ todo = <<>>
    /\ count = 0
    /\ md_path = NoPath
    /\ pandoc_input = NoPath
    /\ body = <<>>
    /\ temp_artifacts = <<>>
    /\ holds = {}
    /\ shown = {}
    /\ success = FALSE
    /\ at_start = {}
    /\ calls = <<>>
    /\ last = NoCleanup
    /\ jobs = <<>>
    /\ faults = 0
    /\ InitFnIdle

(***************************************************************************)
(* Batch Driver: convert                                                   *)
(***************************************************************************)
\* iter_markdown_files: the files of the walk whose name ends in ".md"
RECURSIVE iter_markdown_files(_, _)
iter_markdown_files(i, fs) ==
    IF i > Len(Stems) THEN <<>>
    ELSE (IF md_path_of(Stems[i]) \in fs THEN <<md_path_of(Stems[i])>> ELSE <<>>)
         \o iter_markdown_files(i + 1, fs)

\* lines 482-488: the prerequisites, then the stylesheet locators
CheckPrerequisites ==
    /\ pc = "start"
    /\ \E passed \in BOOLEAN, uris \in CssChoices :
          IF passed
          THEN /\ pc' = "iter"
               /\ css_uris' = uris
               /\ enumerated' = iter_markdown_files(1, files)
               /\ todo' = iter_markdown_files(1, files)
          ELSE /\ pc' = "returned"
               /\ UNCHANGED <<css_uris, enumerated, todo>>
    /\ UNCHANGED <<keep_html_on_success, have_pil, files, dirs, text, count,
                   md_path, pandoc_input, body, temp_artifacts, holds, shown,
                   success, at_start, calls, last, jobs, faults, fnVars>>

\* line 491 with no file left, line 495
Finish ==
    /\ pc = "iter"
    /\ todo = <<>>
    /\ pc' = "returned"
    /\ UNCHANGED <<keep_html_on_success, have_pil, files, dirs, text, css_uris,
                   enumerated, todo, count, md_path, pandoc_input, body,
                   temp_artifacts, holds, shown, success, at_start, calls, last,
                   jobs, faults, fnVars>>

\* line 491-492 and convert_one_file to line 418: the next file, the encoding
\* probe (outside the try block), success = False, temp_artifacts = []
StartJob ==
    /\ pc = "iter"
    /\ todo # <<>>
    /\ \E enc \in Encodings, write_ok \in BOOLEAN :
          LET md == Head(todo)
              r == ensure_utf8_markdown(md, md_tmp_path_of(md), enc, write_ok, files)
          IN  /\ write_ok \/ enc = "legacy"
              /\ Refused(One(enc = "unreadable") + One(~write_ok))
              /\ md_path' = md
              /\ todo' = Tail(todo)
              /\ at_start' = files \cup dirs
              /\ files' = r.files
              /\ pandoc_input' = r.path
              /\ pc' = IF r.raised THEN "raised" ELSE "pandoc"
    /\ success' = FALSE
    /\ temp_artifacts' = <<>>
    /\ shown' = {}
    /\ body' = <<>>
    /\ calls' = <<>>
    /\ last' = NoCleanup
    /\ UNCHANGED <<keep_html_on_success, have_pil, dirs, text, css_uris,
                   enumerated, count, jobs, holds, fnVars>>

(***************************************************************************)
(* Conversion Orchestrator: convert_one_file, one step per external call   *)
(***************************************************************************)
jobFrame == <<keep_html_on_success, have_pil, css_uris, enumerated, todo, count,
              md_path, pandoc_input, at_start, last, jobs, fnVars>>

\* self.run_command(cmd) for a converter command: exit status 0 with the
\* HTML written, or CalledProcessError
run_pandoc(cmd, content, ok, then) ==
    /\ calls' = Append(calls, Call("pandoc", ok, cmd.css, "", <<>>))
    /\ IF ok
       THEN /\ files' = files \cup {cmd.output}
            /\ text' = [text EXCEPT ![cmd.output] = PandocHtml(cmd, content)]
            /\ body' = content
            /\ pc' = then
       ELSE /\ pc' = "cleanup"
            /\ UNCHANGED <<files, text, body>>
    /\ UNCHANGED <<dirs, temp_artifacts, holds, shown, success, faults>>

\* line 421
Pandoc ==
    /\ pc = "pandoc"
    /\ \E ok \in BOOLEAN, content \in Docs :
          run_pandoc(build_pandoc_cmd(pandoc_input, html_path_of(md_path),
                                      path_stem(md_path[Len(md_path)]), css_uris),
                     content, ok, "sanitize")
    /\ UNCHANGED jobFrame

\* self.sanitize_html_for_wkhtmltopdf(html_path, temp_artifacts)
run_sanitize(then) ==
    \E io \in SanitizeIo, mkdir_ok \in BOOLEAN, img \in ImgOutcomes :
        LET html_path == html_path_of(md_path)
            res(mk, im) == sanitize_html_for_wkhtmltopdf(html_path, text[html_path],
                               temp_artifacts, files, dirs, have_pil, io, mk, im)
        IN  /\ Refused(One(io # "ok") + One(~mkdir_ok) + One(img = "partial"))
            /\ \E r \in {res(mkdir_ok, img)} :
                  \* an outcome is drawn only for an operation the call performs
                  /\ ~mkdir_ok => r # res(TRUE, img)
                  /\ img # "ok" => r # res(mkdir_ok, "ok")
                  /\ img = "partial" => r # res(mkdir_ok, "fail")
                  /\ text' = [text EXCEPT ![html_path] = r.text]
                  /\ files' = r.files
                  /\ dirs' = r.dirs
                  /\ temp_artifacts' = r.temp_artifacts
                  /\ holds' = holds \cup r.made
                  /\ shown' = shown \cup r.shown
            /\ calls' = Append(calls, Call("sanitize", io = "ok", <<>>, io, <<>>))
            /\ pc' = then
            /\ UNCHANGED <<body, success>>

\* line 423
Sanitize ==
    /\ pc = "sanitize"
    /\ run_sanitize("render")
    /\ UNCHANGED jobFrame

\* self.run_command(wkhtml_cmd): the renderer reads the HTML file as it is
run_wkhtmltopdf(ok) ==
    /\ calls' = Append(calls, Call("render", ok, <<>>, "", text[html_path_of(md_path)]))
    /\ files' = IF ok THEN files \cup {output_pdf_of(md_path)} ELSE files
    /\ UNCHANGED <<dirs, text, body, temp_artifacts, holds, shown, faults>>

\* the slip of retrying without looking at css_uris
Render_retry_always ==
    /\ pc = "render"
    /\ \E ok \in BOOLEAN :
          /\ run_wkhtmltopdf(ok)
          /\ success' = ok
          /\ pc' = IF ok THEN "cleanup" ELSE "retry_pandoc"
    /\ UNCHANGED jobFrame

\* lines 427-433 and 440: the first renderer call and the choice that follows
Render ==
    /\ pc = "render"
    /\ \E ok \in BOOLEAN :
          /\ run_wkhtmltopdf(ok)
          /\ success' = ok
          /\ pc' = IF ok THEN "cleanup"
                   ELSE IF css_uris # <<>> THEN "retry_pandoc"
                   ELSE "cleanup"
    /\ UNCHANGED jobFrame

\* lines 434-435
RetryPandoc ==
    /\ pc = "retry_pandoc"
    /\ \E ok \in BOOLEAN :
          run_pandoc(build_pandoc_cmd(pandoc_input, html_path_of(md_path),
                                      path_stem(md_path[Len(md_path)]), <<>>),
                     body, ok, "retry_sanitize")
    /\ UNCHANGED jobFrame

\* line 436
RetrySanitize ==
    /\ pc = "retry_sanitize"
    /\ run_sanitize("retry_render")
    /\ UNCHANGED jobFrame

\* lines 437-438
RetryRender ==
    /\ pc = "retry_render"
    /\ \E ok \in BOOLEAN :
          /\ run_wkhtmltopdf(ok)
          /\ success' = ok
          /\ pc' = "cleanup"
    /\ UNCHANGED jobFrame

\* lines 441-478 and 492-493: the failure report, the finally block, the
\* return, and the caller's count
Cleanup ==
    /\ pc = "cleanup"
    /\ LET html_path == html_path_of(md_path)
           md_tmp_path == md_tmp_path_of(md_path)
           tracked == {temp_artifacts[i] : i \in 1..Len(temp_artifacts)}
           due == ({html_path, md_tmp_path} \cup tracked) \cap (files \cup dirs)
       IN  \E failing \in {F \in SUBSET due : faults + Cardinality(F) <= MaxFaults} :
             LET r == cleanup(success, keep_html_on_success, html_path, md_tmp_path,
                              temp_artifacts, files, dirs, failing)
                 refused == {r.log[i].path : i \in {j \in 1..Len(r.log) :
                                 r.log[j].path \in failing}}
             IN  /\ failing = refused
                 /\ files' = r.files
                 /\ text' = [h \in HtmlPaths |-> IF h \in r.files THEN text[h] ELSE <<>>]
                 /\ dirs' = r.dirs
                 /\ holds' = {h \in holds : h[1] \in r.files}
                 /\ faults' = faults + Cardinality(failing)
                 /\ last' = [log |-> r.log, start |-> at_start,
                             before |-> files \cup dirs, after |-> r.files \cup r.dirs,
                             success |-> success, tracked |-> tracked, md |-> md_path,
                             refused |-> failing]
                 /\ jobs' = Append(jobs,
                        [md |-> md_path, success |-> success, tracked |-> tracked,
                         deleted |-> (files \cup dirs) \ (r.files \cup r.dirs)])
    /\ count' = IF success THEN count + 1 ELSE count
    /\ pc' = "iter"
    /\ UNCHANGED <<keep_html_on_success, have_pil, css_uris, enumerated, todo,
                   md_path, pandoc_input, body, temp_artifacts, shown, success,
                   at_start, calls, fnVars>>

Next ==
    \/ CheckPrerequisites
    \/ StartJob
    \/ Pandoc
    \/ Sanitize
    \/ Render
    \/ RetryPandoc
    \/ RetrySanitize
    \/ RetryRender
    \/ Cleanup
    \/ Finish

Spec == Init /\ [][Next]_vars

(***************************************************************************)
(* The Normalizer and the Rewriter applied to bounded inputs               *)
(***************************************************************************)
\* the longest attribute value drawn, in tokens
MaxValueLen == 3

ValueTokens == {SP, ",", "/", "#", "?", "file://", "C%3A", "C:", "a.png", "a%20b.png",
                "src="}
Values == UNION {[1..n -> ValueTokens] : n \in 0..MaxValueLen}
AttrShapes == {<<"src=", DQ>>, <<"href=", SQ>>, <<"srcset=", DQ>>}
\* what may be on disk: nothing, the files beside the document, or also one
\* of the same name in the root of the drive
FnFileSets ==
    {{},
     {BaseDir \o <<"a.png">>, BaseDir \o <<"a b.png">>},
     {BaseDir \o <<"a.png">>, BaseDir \o <<"a b.png">>, <<"C:", "a.png">>}}

\* what may follow the attribute: nothing, or text up to one more quote
Tails == {<<>>, <<"a.png">>}

\* the HTML text: the attribute, then the tail closed by the same quote
FnHtml ==
    fnIn.shape \o fnIn.value \o <<fnIn.shape[2]>>
        \o (IF fnIn.tail = <<>> THEN <<>> ELSE fnIn.tail \o <<fnIn.shape[2]>>)

InitBatchIdle ==
    /\ keep_html_on_success = FALSE
    /\ have_pil = FALSE
    /\ files = {}
    /\ dirs = {}
    /\ text = [h \in HtmlPaths |-> <<>>]
    /\ pc = "off"
    /\ css_uris = <<>>
    /\ enumerated = <<>>
    /\ todo = <<>>
    /\ count = 0
    /\ md_path = NoPath
    /\ pandoc_input = NoPath
    /\ body = <<>>
    /\ temp_artifacts = <<>>
    /\ holds = {}
    /\ shown = {}
    /\ success = FALSE
    /\ at_start = {}
    /\ calls = <<>>
    /\ last = NoCleanup
    /\ jobs = <<>>
    /\ faults = 0

InitFn ==
    /\ InitBatchIdle
    /\ fnPc = "input"
    /\ fnIn \in [shape : AttrShapes, value : Values, tail : Tails]
    /\ fnFiles \in FnFileSets
    /\ fnRes = <<>>
    /\ fnOut1 = <<>>
    /\ fnOut2 = <<>>

\* to_uri_if_exists(url) on the value
Normalize ==
    /\ fnPc = "input"
    /\ fnRes' = to_uri_if_exists(fnIn.value, BaseDir, fnFiles)
    /\ fnPc' = "normalized"
    /\ UNCHANGED <<batchVars, fnIn, fnFiles, fnOut1, fnOut2>>

\* rewrite_local_urls_to_file_uri(html, base_dir) on the attribute
Rewrite ==
    /\ fnPc = "normalized"
    /\ fnOut1' = rewrite_local_urls_to_file_uri(FnHtml, BaseDir, fnFiles)
    /\ fnPc' = "rewritten"
    /\ UNCHANGED <<batchVars, fnIn, fnFiles, fnRes, fnOut2>>

\* the same again, on its own output
RewriteAgain ==
    /\ fnPc = "rewritten"
    /\ fnOut2' = rewrite_local_urls_to_file_uri(fnOut1, BaseDir, fnFiles)
    /\ fnPc' = "rewritten2"
    /\ UNCHANGED <<batchVars, fnIn, fnFiles, fnRes, fnOut1>>

NextFn ==
    \/ Normalize
    \/ Rewrite
    \/ RewriteAgain

SpecFn == InitFn /\ [][NextFn]_vars

(***************************************************************************)
(* Claims about convert and convert_one_file (checked under Spec)          *)
(***************************************************************************)
\* the positions of the renderer calls among the calls of the current job
RenderCalls == {i \in 1..Len(calls) : calls[i].op = "render"}

\* a job has returned and `last` describes its cleanup
JobReturned == pc = "iter" /\ last.md # <<>>

\* the files and directories the job of `last` created and left on disk
LeftBehind == last.after \ last.start

\* C1: convert_one_file never lets an exception escape.
C1_NeverRaises == pc # "raised"

\* C2 as stated: a first renderer failure with stylesheets attached is always
\* followed by exactly one retry of the renderer; otherwise there is no second
\* renderer call.
C2_RetriesExactlyOnce ==
    pc = "cleanup" =>
        /\ Cardinality(RenderCalls) <= 2
        /\ \A i \in RenderCalls :
              ~calls[i].ok /\ css_uris # <<>> /\ i = 3 => Cardinality(RenderCalls) = 2
        /\ Cardinality(RenderCalls) = 2 => ~calls[3].ok /\ css_uris # <<>>

\* C2 (amended): after a first renderer failure with stylesheets attached the
\* converter is called again with no stylesheet; if that call succeeds the
\* HTML is sanitized again and the renderer is retried exactly once, and if it
\* fails the job fails with no further renderer call.  The renderer is called
\* at most twice per job, the second time only after a first failure with
\* stylesheets attached, and the job succeeds exactly if its last renderer
\* call does.
C2_RetriesOnceAfterRegeneration ==
    /\ Cardinality(RenderCalls) <= 2
    /\ \A i \in RenderCalls :
          /\ i \in {3, 6}
          /\ calls[i - 1].op = "sanitize"
          /\ calls[i - 2].op = "pandoc" /\ calls[i - 2].ok
    /\ 6 \in RenderCalls =>
          /\ 3 \in RenderCalls /\ ~calls[3].ok /\ css_uris # <<>>
          /\ calls[4].css = <<>>
    /\ pc = "cleanup" =>
          /\ 3 \in RenderCalls /\ ~calls[3].ok /\ css_uris # <<>> =>
                /\ Len(calls) >= 4
                /\ calls[4].op = "pandoc" /\ calls[4].css = <<>>
                /\ calls[4].ok <=> 6 \in RenderCalls
          /\ 3 \in RenderCalls /\ css_uris = <<>> => Len(calls) = 3
          /\ success <=> /\ calls # <<>>
                         /\ calls[Len(calls)].op = "render"
                         /\ calls[Len(calls)].ok

\* the renderer failed twice in one job: with the stylesheets, then without
C2_Witness ==
    /\ pc = "cleanup"
    /\ Cardinality(RenderCalls) = 2
    /\ ~calls[3].ok /\ ~calls[6].ok
    /\ calls[1].css # <<>> /\ calls[4].css = <<>>

\* C3: once the prerequisites pass, a job runs for every enumerated Markdown
\* file whatever the outcome of the jobs before it, and the final count is the
\* number of jobs that returned success.
C3_EveryFileConverted ==
    pc \in {"returned", "raised"} =>
        /\ Len(jobs) = Len(enumerated)
        /\ \A i \in 1..Len(jobs) : jobs[i].md = enumerated[i]
        /\ count = Cardinality({i \in 1..Len(jobs) : jobs[i].success})

C5_FailureKeepsEverything ==
    JobReturned /\ ~last.success =>
        /\ last.after = last.before
        /\ last.log = <<>>
        /\ last.tracked \subseteq last.after
        /\ pandoc_input # last.md => pandoc_input \in files
        /\ (\E i \in 1..Len(calls) : calls[i].op = "pandoc" /\ calls[i].ok)
              => html_path_of(last.md) \in files

\* a job failed after the no-stylesheet retry, with a temporary copy, an HTML
\* file and tracked artifacts
C5_Witness ==
    /\ JobReturned /\ ~last.success
    /\ Len(calls) = 6
    /\ last.tracked # {}
    /\ pandoc_input = md_tmp_path_of(last.md)
    /\ {html_path_of(last.md), pandoc_input} \subseteq files

\* C6: the artifacts a job tracks are owned by that job alone: a path one job
\* tracks and later deletes is not one that an earlier job tracked and left on
\* disk.
C6_ArtifactsOwnedByOneJob ==
    \A i, j \in 1..Len(jobs) :
        i < j => (jobs[j].tracked \cap jobs[j].deleted)
                     \cap (jobs[i].tracked \ jobs[i].deleted) = {}

\* the text holds an empty href or src attribute, or about:blank
HoldsEmptyReference(html) ==
    \E i \in 1..Len(html) :
        \/ html[i] = AboutBlank
        \/ \E pat \in {EmptyHrefDQ, EmptyHrefSQ, EmptySrcDQ, EmptySrcSQ} :
              IsPrefix(pat, SubSeq(html, i, Len(html)))

\* C7 as stated: the renderer never receives HTML that holds an empty href or
\* src attribute or about:blank.
C7_RendererGetsNoEmptyReference ==
    \A i \in RenderCalls : ~HoldsEmptyReference(calls[i].html)

\* C7 (amended): every renderer call comes right after a sanitizer call that
\* follows a successful converter call, and the HTML it receives holds no
\* empty href or src attribute and no about:blank provided the sanitizer
\* could read and write the file (a read or write failure is swallowed and
\* the renderer receives the HTML as the converter wrote it).
C7_RendererGetsSanitizedHtml ==
    \A i \in RenderCalls :
        /\ i >= 3
        /\ calls[i - 1].op = "sanitize"
        /\ calls[i - 2].op = "pandoc" /\ calls[i - 2].ok
        /\ calls[i - 1].io = "ok" => ~HoldsEmptyReference(calls[i].html)
        /\ calls[i - 1].io # "ok" =>
              calls[i].html = CssLinks(calls[i - 2].css) \o body

\* the retry rendered a document with an empty link and about:blank after
\* the sanitizer had rewritten it
C7_Witness ==
    /\ 6 \in RenderCalls
    /\ body = DocEmptyLink
    /\ calls[5].io = "ok"
    /\ calls[6].html = <<"href=", DQ, "#", DQ, "src=", SQ, "#", SQ>>

\* C10: in the success cleanup every item due for deletion is attempted
\* whatever happened to the others, a tracked file is removed before the
\* directory that holds it, and a directory is removed only if it is empty.
C10_EachDeletionOnItsOwn ==
    JobReturned /\ last.success =>
        LET due == ((IF keep_html_on_success THEN {}
                     ELSE {html_path_of(last.md)} \cup last.tracked)
                    \cup {md_tmp_path_of(last.md)}) \cap last.before
            log == last.log
        IN  /\ \A p \in due : \E k \in 1..Len(log) : log[k].path = p
            /\ \A k, m \in 1..Len(log) :
                  log[k].call = "rmdir" /\ parent(log[m].path) = log[k].path
                      => m < k
            /\ \A k \in 1..Len(log) :
                  log[k].call = "rmdir" /\ log[k].ok
                      => ~\E f \in last.after : parent(f) = log[k].path

\* the scratch directory of the current job
OutDir == parent(html_path_of(md_path)) \o <<ScratchName>>

\* what the current job has put into the scratch directory, and the directory
\* itself if the job made it
MadeInOutDir ==
    {p \in (files \cup dirs) \ at_start : p = OutDir \/ parent(p) = OutDir}

\* C11: after a call of the transcoder every output file it created in the
\* scratch directory, and the directory if it created it, is in the tracking
\* list, also when an image failed to be decoded or written.
C11_EveryOutputTracked ==
    pc \in {"render", "retry_render", "cleanup"} =>
        MadeInOutDir \subseteq {temp_artifacts[i] : i \in 1..Len(temp_artifacts)}

\* C12: a locator the transcoder replaced points at a converted copy of the
\* image the locator named, and two distinct source images are never mapped to
\* the same converted file.
C12_ReplacementShowsSameImage ==
    pc \in {"render", "retry_render", "cleanup"} =>
        /\ \A m \in shown : <<m[2], m[1]>> \in holds
        /\ \A m, n \in shown : m[2] = n[2] => m[1] = n[1]

(***************************************************************************)
(* Claims about the Normalizer and the Rewriter (checked under SpecFn)     *)
(***************************************************************************)
\* the path a file locator points at
uri_path(uri) ==
    LET p == lstrip(Tail(uri), "/")
    IN  PathOf([i \in 1..Len(p) |-> Unquote(p[i])])

IsFileUri(u) == u # <<>> /\ Head(u) = "file://"

\* C8 as stated: the Normalizer returns the reference unchanged or a locator
\* of a file that exists on disk.
C8_UnchangedOrExistingFile ==
    fnPc = "normalized" =>
        \/ fnRes = fnIn.value
        \/ IsFileUri(fnRes) /\ uri_path(fnRes) \in fnFiles

\* C8 (amended): the Normalizer returns the reference unchanged or an absolute
\* file locator; the locator points at a file that exists on disk unless the
\* decoded reference is a drive-letter absolute path, which is taken as given.
C8_UnchangedOrExistingUnlessDrive ==
    fnPc = "normalized" =>
        \/ fnRes = fnIn.value
        \/ /\ IsFileUri(fnRes)
           /\ fnRes[2] = "/" /\ fnRes[3] = "C:"
           /\ \/ uri_path(fnRes) \in fnFiles
              \/ IsDriveAbsolute(normalize_local_path(fnIn.value))

\* a relative reference was resolved to the locator of a file on disk
C8_Witness ==
    /\ fnPc = "normalized"
    /\ fnRes # fnIn.value
    /\ ~IsDriveAbsolute(normalize_local_path(fnIn.value))
    /\ uri_path(fnRes) \in fnFiles

\* a srcset value that holds the text of a src or href attribute name
SrcsetHoldsAttrName ==
    /\ fnIn.shape[1] = "srcset="
    /\ \E i \in 1..Len(fnIn.value) : fnIn.value[i] \in {"src=", "href="}

====
